---- MODULE Spec2Model ----
(***************************************************************************)
(* A model of the books API (aoideee/lab4-crud).                           *)
(*                                                                         *)
(*   Spec      the request handlers of cmd/api/handlers.go running as      *)
(*             concurrent tasks over the books table (internal/data).      *)
(*   SpecRL    the rateLimit middleware of cmd/api/middleware.go: one      *)
(*             request task, the registry, its mutex and the cleanup       *)
(*             goroutine, over several sweeps.                             *)
(*   SpecRLShared  the same middleware with all tasks and two ips, up to   *)
(*             the end of the first sweep.                                 *)
(*   SpecServe the handler chain that serve() and routes() build.          *)
(*   SpecMain  the process that main() runs in, its server and signals.    *)
(*   SpecList  listBooksHandler on one task: every query string over       *)
(*             every table of catalogue rows.                              *)
(*   SpecPages listBooksHandler on all tasks with valid queries.           *)
(*   SpecFn    calculateMetadata, the sort resolver, the Validator and     *)
(*             serverErrorResponse, each called on its own.                *)
(*                                                                         *)
(* The persistence layer is modelled as a reliable PostgreSQL table with   *)
(* the constraints of the migration; every SQL statement is one atomic     *)
(* step.  Connectivity faults occur in SpecFn only.                        *)
(***************************************************************************)
EXTENDS Integers, Sequences, FiniteSets, TLC

(* ------------------------------ bounds -------------------------------- *)

\* Largest value the SERIAL sequence of book_id hands out in a run.
MaxId == 2

\* Largest value of the database clock (CURRENT_TIMESTAMP); it starts at 1.
MaxClock == 2

\* Requests served in one run of the handlers.
MaxRequests == 3

\* Concurrent request tasks (goroutines of net/http).
Tasks == {"t1", "t2"}

\* Ticks the wall clock may take one by one after each wake-up of the cleanup
\* goroutine; the rest of the minute passes in one step.
MaxTicks == 1

\* Requests to the handlers in a run that has list requests as well.
MaxFramed == 2

\* Requests of one run in which a single task serves a single ip.
MaxLimited == 6

\* Requests of one run in which the tasks serve several ips concurrently.
MaxShared == 6

(* --------------------------- program constants ------------------------ *)

MaxTitleLen == 255
IsbnLen == 13
MaxYear == 2026
MaxPublisherLen == 150

\* rate.NewLimiter(rate.Limit(2), 4)
RefillPerSecond == 2
Burst == 4

\* The wall clock ticks once in the time that refills one token.
TicksPerSecond == RefillPerSecond

Second == TicksPerSecond
Minute == 60 * Second

\* time.Sleep(time.Minute) in the cleanup goroutine
SweepInterval == Minute

\* time.Since(c.lastSeen) > 3*time.Minute
StaleAfter == 3 * Minute

\* A run of the rate limiter lasts until the sweep after the one that can
\* first evict an entry.
Horizon == StaleAfter + 2 * SweepInterval

(* ------------------------------ values -------------------------------- *)

RECURSIVE Rep(_)
Rep(n) == IF n = 0 THEN "" ELSE "a" \o Rep(n - 1)

LongTitle == Rep(MaxTitleLen + 1)

Isbn1 == "1234567890123"
Isbn2 == "9780000000002"

\* The zero value of data.Book.
ZeroBook ==
    [book_id |-> 0, title |-> "", isbn |-> "", publisher |-> "",
     publication_year |-> 0, minimum_age |-> 0, description |-> "",
     created_at |-> 0, updated_at |-> 0]

\* A decoded data.CreateBookInput; a JSON field left out decodes to the zero value.
CreateInput(t, i, p, y, a, d) ==
    [title |-> t, isbn |-> i, publisher |-> p, publication_year |-> y,
     minimum_age |-> a, description |-> d]

CreateBodies ==
    { CreateInput("T", Isbn1, "P", 2020, 0, ""),
      CreateInput("X", Isbn2, "Q", 2026, 5, "D"),
      CreateInput("X", Isbn1, "P", 2020, 0, ""),
      CreateInput("", "", "", 0, 0, ""),
      CreateInput("T", Isbn1, "P", 2027, 0, ""),
      CreateInput(LongTitle, "123", "P", 2027, -1, "D") }

\* A decoded data.UpdateBookInput: every field is a pointer, <<>> is nil and
\* <<v>> points to v.
UpdateInput(t, i, p, y, a, d) ==
    [title |-> t, isbn |-> i, publisher |-> p, publication_year |-> y,
     minimum_age |-> a, description |-> d]

NoInput == UpdateInput(<<>>, <<>>, <<>>, <<>>, <<>>, <<>>)

UpdateBodies ==
    { NoInput,
      [NoInput EXCEPT !.title = <<"X">>],
      [NoInput EXCEPT !.minimum_age = <<0>>],
      [NoInput EXCEPT !.description = <<"">>],
      [NoInput EXCEPT !.isbn = <<Isbn2>>],
      [NoInput EXCEPT !.publisher = <<"Q">>, !.publication_year = <<2026>>],
      [NoInput EXCEPT !.isbn = <<"123">>, !.minimum_age = <<-1>>] }

\* The :id path parameter, after strconv.ParseInt; 0 stands for every value
\* that readIDParam turns down.
IdParams == 0 .. MaxId

(* ------------------------------ state --------------------------------- *)

VARIABLES
    books,      \* the books table: book_id -> row
    seq,        \* last value handed out by the book_id sequence
    clock,      \* CURRENT_TIMESTAMP of the database
    task,       \* per request task: the handler's position and locals
    deleted,    \* history: ids whose DELETE has been answered 200
    nreq        \* history: requests started

storeVars == <<books, seq, clock, task, deleted, nreq>>

VARIABLES
    now,        \* wall-clock time, in ticks
    clients,    \* rateLimit's registry: ip -> [limiter, lastSeen]
    mu,         \* rateLimit's mutex: its holder, or Unlocked
    cleanup,    \* the cleanup goroutine: [pc, wake]
    rl,         \* per request task inside the middleware: position and locals
    hist,       \* history per ip: the decisions of its latest requests
    nlim,       \* history: requests that reached the middleware
    obs         \* history per ip: see Observe

rlVars == <<now, clients, mu, cleanup, rl, hist, nlim, obs>>

VARIABLES
    conn,       \* per request task of the server: the request's way to a handler
    proc        \* the process that main() runs in: [pc, signal, waited, code]

serveVars == <<conn, proc>>

VARIABLES
    lreq,       \* per request task of listBooksHandler: query, filters, answer
    calc        \* a call of a function on its own: [fn, args, out]

fnVars == <<lreq, calc>>

vars == <<books, seq, clock, task, deleted, nreq,
          now, clients, mu, cleanup, rl, hist, nlim, obs, conn, proc, lreq,
          calc>>

(* ------------------------- internal/validator -------------------------- *)

\* validator.New: an empty Errors map.
New == [k \in {} |-> ""]

\* Validator.Valid
Valid(v) == DOMAIN v = {}

\* A mutant of AddError: a later message replaces the recorded one.
AddErrorOverwrite(v, key, message) ==
    [k \in DOMAIN v \cup {key} |-> IF k = key THEN message ELSE v[k]]

\* Validator.AddError: the first message recorded for a key is kept.
AddError(v, key, message) ==
    IF key \in DOMAIN v THEN v ELSE (key :> message) @@ v

\* Validator.Check
Check(v, ok, key, message) ==
    IF ~ok THEN AddError(v, key, message) ELSE v

\* A mutant of validateBook: the two publication_year checks are missing.
validateBookNoYear(b) ==
    LET v1 == Check(New, b.title # "", "title", "must be provided")
        v2 == Check(v1, Len(b.title) <= MaxTitleLen, "title",
                    "must not be more than 255 characters long")
        v3 == Check(v2, b.isbn # "", "isbn", "must be provided")
        v4 == Check(v3, Len(b.isbn) = IsbnLen, "isbn",
                    "must be exactly 13 characters long")
        v5 == Check(v4, b.publisher # "", "publisher", "must be provided")
    IN  Check(v5, b.minimum_age >= 0, "minimum_age", "must be zero or greater")

\* A mutant of validateBook: the checks stop at the first that fails.
validateBookFirstOnly(b) ==
    IF b.title = "" THEN AddError(New, "title", "must be provided")
    ELSE IF Len(b.title) > MaxTitleLen
    THEN AddError(New, "title", "must not be more than 255 characters long")
    ELSE IF b.isbn = "" THEN AddError(New, "isbn", "must be provided")
    ELSE IF Len(b.isbn) # IsbnLen
    THEN AddError(New, "isbn", "must be exactly 13 characters long")
    ELSE IF b.publisher = "" THEN AddError(New, "publisher", "must be provided")
    ELSE IF b.publication_year <= 0
    THEN AddError(New, "publication_year", "must be provided")
    ELSE IF b.publication_year > MaxYear
    THEN AddError(New, "publication_year", "must not be in the future")
    ELSE IF b.minimum_age < 0
    THEN AddError(New, "minimum_age", "must be zero or greater")
    ELSE New

\* The eight checks that createBookHandler, replaceBookHandler and
\* updateBookHandler each run, on the input or on the merged book.
validateBook(b) ==
    LET v1 == Check(New, b.title # "", "title", "must be provided")
        v2 == Check(v1, Len(b.title) <= MaxTitleLen, "title",
                    "must not be more than 255 characters long")
        v3 == Check(v2, b.isbn # "", "isbn", "must be provided")
        v4 == Check(v3, Len(b.isbn) = IsbnLen, "isbn",
                    "must be exactly 13 characters long")
        v5 == Check(v4, b.publisher # "", "publisher", "must be provided")
        v6 == Check(v5, b.publication_year > 0, "publication_year",
                    "must be provided")
        v7 == Check(v6, b.publication_year <= MaxYear, "publication_year",
                    "must not be in the future")
    IN  Check(v7, b.minimum_age >= 0, "minimum_age", "must be zero or greater")

(* --------------------------- internal/data ----------------------------- *)

Nil == "nil"
ErrRecordNotFound == "record not found"
ErrNoRows == "sql: no rows in result set"
ErrUnique == "pq: duplicate key value violates unique constraint"
ErrTooLong == "pq: value too long for type character varying"

\* The column constraints of the books table that a Go string or int can break.
ColumnsFit(b) ==
    /\ Len(b.title) <= MaxTitleLen
    /\ Len(b.isbn) <= IsbnLen
    /\ Len(b.publisher) <= MaxPublisherLen

\* A mutant of IsbnFree: the isbn column without its UNIQUE constraint.
IsbnUnchecked(isbn, self) == TRUE

\* isbn VARCHAR(13) UNIQUE: no row other than `self` carries the isbn.
IsbnFree(isbn, self) ==
    \A id \in DOMAIN books \ {self} : books[id].isbn # isbn

\* A mutant of NextBookId: the smallest id no row uses (ids are reused).
NextBookIdReuse ==
    CHOOSE id \in 1 .. (seq + 1) :
        /\ id \notin DOMAIN books
        /\ \A j \in 1 .. (id - 1) : j \in DOMAIN books

\* book_id SERIAL: the next value of the sequence.
NextBookId == seq + 1

\* A mutant of Insert: updated_at has no default and stays at the zero value.
InsertUnstamped(b) ==
    LET row == [b EXCEPT !.book_id = NextBookId, !.created_at = clock,
                         !.updated_at = 0]
        err == IF ~ColumnsFit(b) THEN ErrTooLong
               ELSE IF ~IsbnFree(b.isbn, 0) THEN ErrUnique
               ELSE Nil
    IN  [err   |-> err,
         books |-> IF err = Nil THEN (row.book_id :> row) @@ books ELSE books,
         seq   |-> seq + 1,
         book  |-> IF err = Nil THEN row ELSE b]

\* BookModel.Insert: the error, the table and the book as scanned back.
\* A sequence value is used up whether or not the row is accepted.
Insert(b) ==
    LET row == [b EXCEPT !.book_id = NextBookId, !.created_at = clock,
                         !.updated_at = clock]
        err == IF ~ColumnsFit(b) THEN ErrTooLong
               ELSE IF ~IsbnFree(b.isbn, 0) THEN ErrUnique
               ELSE Nil
    IN  [err   |-> err,
         books |-> IF err = Nil THEN (row.book_id :> row) @@ books ELSE books,
         seq   |-> seq + 1,
         book  |-> IF err = Nil THEN row ELSE b]

\* BookModel.Get
Get(id) ==
    IF id < 1 THEN [err |-> ErrRecordNotFound, book |-> ZeroBook, query |-> FALSE]
    ELSE IF id \notin DOMAIN books
         THEN [err |-> ErrRecordNotFound, book |-> ZeroBook, query |-> TRUE]
         ELSE [err |-> Nil, book |-> books[id], query |-> TRUE]

\* BookModel.Delete
Delete(id) ==
    IF id < 1 THEN [err |-> ErrRecordNotFound, books |-> books, query |-> FALSE]
    ELSE IF id \notin DOMAIN books
         THEN [err |-> ErrRecordNotFound, books |-> books, query |-> TRUE]
         ELSE [err |-> Nil,
               books |-> [i \in DOMAIN books \ {id} |-> books[i]],
               query |-> TRUE]

\* BookModel.Update: UPDATE ... WHERE book_id = $7 RETURNING updated_at, then
\* Scan.  With no matching row Scan returns sql.ErrNoRows, which is returned
\* as it is.  The statement is sent for every id.
Update(b) ==
    IF b.book_id \notin DOMAIN books
    THEN [err |-> ErrNoRows, books |-> books, book |-> b, query |-> TRUE]
    ELSE LET err == IF ~ColumnsFit(b) THEN ErrTooLong
                    ELSE IF ~IsbnFree(b.isbn, b.book_id) THEN ErrUnique
                    ELSE Nil
             row == [books[b.book_id] EXCEPT
                        !.title = b.title, !.isbn = b.isbn,
                        !.publisher = b.publisher,
                        !.publication_year = b.publication_year,
                        !.minimum_age = b.minimum_age,
                        !.description = b.description,
                        !.updated_at = clock]
         IN  IF err # Nil
             THEN [err |-> err, books |-> books, book |-> b, query |-> TRUE]
             ELSE [err |-> Nil,
                   books |-> [books EXCEPT ![b.book_id] = row],
                   book |-> [b EXCEPT !.updated_at = clock],
                   query |-> TRUE]

(* --------------------------- cmd/api handlers -------------------------- *)

ZeroInput == CreateInput("", "", "", 0, 0, "")

\* A request task that runs no handler.  Besides the handler's locals (id,
\* book, input, v.Errors, err) and its answer (status), a task records history:
\* op/miss/query/changed describe its last call of the store (whether a row
\* with the id existed, whether a statement was sent, whether the table
\* changed), late says that it started after a DELETE of its id was answered
\* 200, pre/post are the row before and after its UPDATE, and bad says that
\* the body the request arrived with is one that readJSON cannot decode.
IdleTask ==
    [pc |-> "idle", handler |-> "", id |-> 0, book |-> ZeroBook,
     cin |-> ZeroInput, uin |-> NoInput, status |-> 0, errors |-> New,
     err |-> Nil, op |-> "", miss |-> FALSE, query |-> FALSE,
     changed |-> FALSE, late |-> FALSE, pre |-> ZeroBook, post |-> ZeroBook,
     bad |-> FALSE]

\* A task can take a request when it runs none.
Free(t) == task[t].pc \in {"idle", "done"} /\ nreq < MaxRequests

Begin(h, id) ==
    [IdleTask EXCEPT !.handler = h, !.id = id, !.late = (id \in deleted)]

\* The task's record once the response is written.
Answer(r, status) == [r EXCEPT !.pc = "done", !.status = status]

\* What a call of the store left in the task's history.
Called(r, op, res, missing, changed) ==
    [r EXCEPT !.op = op, !.err = res.err, !.miss = missing,
              !.query = res.query, !.changed = changed]

\* createBookHandler: the book built from the validated input.
NewBook(in) ==
    [ZeroBook EXCEPT !.title = in.title, !.isbn = in.isbn,
                     !.publisher = in.publisher,
                     !.publication_year = in.publication_year,
                     !.minimum_age = in.minimum_age,
                     !.description = in.description]

\* replaceBookHandler: every field of the fetched book is overwritten.
Overwrite(book, in) ==
    [book EXCEPT !.title = in.title, !.isbn = in.isbn,
                 !.publisher = in.publisher,
                 !.publication_year = in.publication_year,
                 !.minimum_age = in.minimum_age,
                 !.description = in.description]

Deref(p, old) == IF p # <<>> THEN p[1] ELSE old

\* updateBookHandler: only the non-nil fields of the input are applied.
Merge(book, in) ==
    [book EXCEPT !.title = Deref(in.title, @), !.isbn = Deref(in.isbn, @),
                 !.publisher = Deref(in.publisher, @),
                 !.publication_year = Deref(in.publication_year, @),
                 !.minimum_age = Deref(in.minimum_age, @),
                 !.description = Deref(in.description, @)]

\* POST /v1/books
createBookHandler(t) ==
    /\ Free(t)
    /\ \E malformed \in BOOLEAN :
       \E in \in (IF malformed THEN {ZeroInput} ELSE CreateBodies) :
          LET r0  == [Begin("createBookHandler", 0) EXCEPT !.cin = in,
                                                            !.bad = malformed]
              v   == validateBook(in)
              ins == Insert(NewBook(in))
              r1  == [r0 EXCEPT !.op = "Insert", !.err = ins.err,
                                !.query = TRUE, !.changed = (ins.err = Nil),
                                !.book = ins.book]
          IN  IF malformed
              THEN /\ task' = [task EXCEPT ![t] = Answer(r0, 400)]
                   /\ UNCHANGED <<books, seq>>
              ELSE IF ~Valid(v)
              THEN /\ task' = [task EXCEPT ![t] =
                                   Answer([r0 EXCEPT !.errors = v], 422)]
                   /\ UNCHANGED <<books, seq>>
              ELSE /\ seq < MaxId
                   /\ books' = ins.books
                   /\ seq' = ins.seq
                   /\ task' = [task EXCEPT ![t] =
                                   Answer(r1, IF ins.err # Nil THEN 500 ELSE 201)]
    /\ nreq' = nreq + 1
    /\ UNCHANGED <<clock, deleted>>

\* GET /v1/books/:id
showBookHandler(t) ==
    /\ Free(t)
    /\ \E id \in IdParams :
          LET r0  == Begin("showBookHandler", id)
              got == Get(id)
              r1  == [Called(r0, "Get", got, id \notin DOMAIN books, FALSE)
                          EXCEPT !.book = got.book]
          IN  task' = [task EXCEPT ![t] =
                  IF id < 1 THEN Answer(r0, 400)
                  ELSE IF got.err = ErrRecordNotFound THEN Answer(r1, 404)
                  ELSE IF got.err # Nil THEN Answer(r1, 500)
                  ELSE Answer(r1, 200)]
    /\ nreq' = nreq + 1
    /\ UNCHANGED <<books, seq, clock, deleted>>

\* The start of replaceBookHandler and of updateBookHandler: readIDParam,
\* then Get to fetch the book.  The request arrives with its body, which
\* the handler has not read yet.
Fetch(t, h) ==
    /\ Free(t)
    /\ \E id \in IdParams : \E malformed \in BOOLEAN :
          LET r0  == [Begin(h, id) EXCEPT !.bad = malformed]
              got == Get(id)
              r1  == [Called(r0, "Get", got, id \notin DOMAIN books, FALSE)
                          EXCEPT !.book = got.book]
          IN  task' = [task EXCEPT ![t] =
                  IF id < 1 THEN Answer(r0, 400)
                  ELSE IF got.err = ErrRecordNotFound THEN Answer(r1, 404)
                  ELSE IF got.err # Nil THEN Answer(r1, 500)
                  ELSE [r1 EXCEPT !.pc = "fetched"]]
    /\ nreq' = nreq + 1
    /\ UNCHANGED <<books, seq, clock, deleted>>

\* A mutant of Save: an error of Update is not reported.
SaveQuiet(t, r, book) ==
    LET upd == Update(book)
        gone == book.book_id \notin DOMAIN books
        r1  == [Called(r, "Update", upd, gone, upd.books # books)
                    EXCEPT !.book = upd.book,
                           !.pre = IF gone THEN ZeroBook ELSE books[book.book_id],
                           !.post = IF book.book_id \in DOMAIN upd.books
                                    THEN upd.books[book.book_id] ELSE ZeroBook]
    IN  /\ books' = upd.books
        /\ task' = [task EXCEPT ![t] = Answer(r1, 200)]

\* The end of replaceBookHandler and of updateBookHandler: Update with the
\* book as changed, then the response.
Save(t, r, book) ==
    LET upd == Update(book)
        gone == book.book_id \notin DOMAIN books
        r1  == [Called(r, "Update", upd, gone, upd.books # books)
                    EXCEPT !.book = upd.book,
                           !.pre = IF gone THEN ZeroBook ELSE books[book.book_id],
                           !.post = IF book.book_id \in DOMAIN upd.books
                                    THEN upd.books[book.book_id] ELSE ZeroBook]
    IN  /\ books' = upd.books
        /\ task' = [task EXCEPT ![t] =
                        Answer(r1, IF upd.err # Nil THEN 500 ELSE 200)]

\* PUT /v1/books/:id, up to the fetch
replaceBookHandler(t) == Fetch(t, "replaceBookHandler")

\* PUT /v1/books/:id, from readJSON on
replaceBookHandlerWrite(t) ==
    /\ task[t].pc = "fetched"
    /\ task[t].handler = "replaceBookHandler"
    /\ LET malformed == task[t].bad IN
       \E in \in (IF malformed THEN {ZeroInput} ELSE CreateBodies) :
          LET r0 == [task[t] EXCEPT !.cin = in]
              v  == validateBook(in)
          IN  IF malformed
              THEN /\ task' = [task EXCEPT ![t] = Answer(r0, 400)]
                   /\ UNCHANGED books
              ELSE IF ~Valid(v)
              THEN /\ task' = [task EXCEPT ![t] =
                                   Answer([r0 EXCEPT !.errors = v], 422)]
                   /\ UNCHANGED books
              ELSE Save(t, r0, Overwrite(task[t].book, in))
    /\ UNCHANGED <<seq, clock, deleted, nreq>>

\* PATCH /v1/books/:id, up to the fetch
updateBookHandler(t) == Fetch(t, "updateBookHandler")

\* A mutant of updateBookHandlerWrite: the merged book is written before it
\* is validated.
updateBookHandlerWriteUnchecked(t) ==
    /\ task[t].pc = "fetched"
    /\ task[t].handler = "updateBookHandler"
    /\ LET malformed == task[t].bad IN
       \E in \in (IF malformed THEN {NoInput} ELSE UpdateBodies) :
          LET r0     == [task[t] EXCEPT !.uin = in]
              merged == Merge(task[t].book, in)
              v      == validateBook(merged)
          IN  IF malformed
              THEN /\ task' = [task EXCEPT ![t] = Answer(r0, 400)]
                   /\ UNCHANGED books
              ELSE IF ~Valid(v)
              THEN /\ task' = [task EXCEPT ![t] =
                                   Answer([r0 EXCEPT !.errors = v,
                                                     !.book = merged], 422)]
                   /\ books' = Update(merged).books
              ELSE Save(t, r0, merged)
    /\ UNCHANGED <<seq, clock, deleted, nreq>>

\* PATCH /v1/books/:id, from readJSON on
updateBookHandlerWrite(t) ==
    /\ task[t].pc = "fetched"
    /\ task[t].handler = "updateBookHandler"
    /\ LET malformed == task[t].bad IN
       \E in \in (IF malformed THEN {NoInput} ELSE UpdateBodies) :
          LET r0     == [task[t] EXCEPT !.uin = in]
              merged == Merge(task[t].book, in)
              v      == validateBook(merged)
          IN  IF malformed
              THEN /\ task' = [task EXCEPT ![t] = Answer(r0, 400)]
                   /\ UNCHANGED books
              ELSE IF ~Valid(v)
              THEN /\ task' = [task EXCEPT ![t] =
                                   Answer([r0 EXCEPT !.errors = v,
                                                     !.book = merged], 422)]
                   /\ UNCHANGED books
              ELSE Save(t, r0, merged)
    /\ UNCHANGED <<seq, clock, deleted, nreq>>

\* DELETE /v1/books/:id
deleteBookHandler(t) ==
    /\ Free(t)
    /\ \E id \in IdParams :
          LET r0  == Begin("deleteBookHandler", id)
              del == Delete(id)
              r1  == Called(r0, "Delete", del, id \notin DOMAIN books,
                            del.books # books)
          IN  IF id < 1
              THEN /\ task' = [task EXCEPT ![t] = Answer(r0, 400)]
                   /\ UNCHANGED <<books, deleted>>
              ELSE /\ books' = del.books
                   /\ task' = [task EXCEPT ![t] =
                          IF del.err = ErrRecordNotFound THEN Answer(r1, 404)
                          ELSE IF del.err # Nil THEN Answer(r1, 500)
                          ELSE Answer(r1, 200)]
                   /\ deleted' = IF del.err = Nil THEN deleted \cup {id}
                                 ELSE deleted
    /\ nreq' = nreq + 1
    /\ UNCHANGED <<seq, clock>>

\* The database clock moves on, as long as a request is running or can
\* still start to read it.  Timestamps are only compared with each other,
\* so one value more than the requests started so far is all that they can
\* tell apart.
Tick ==
    /\ clock < MaxClock
    /\ clock <= nreq
    /\ nreq < MaxRequests \/ \E t \in Tasks : task[t].pc = "fetched"
    /\ clock' = clock + 1
    /\ UNCHANGED <<books, seq, task, deleted, nreq>>

(* ------------------------- the handlers' system ------------------------ *)

StoreInit ==
    /\ books = [i \in {} |-> ZeroBook]
    /\ seq = 0
    /\ clock = 1
    /\ task = [t \in Tasks |-> IdleTask]
    /\ deleted = {}
    /\ nreq = 0

StoreNext ==
    \/ \E t \in Tasks : createBookHandler(t)
    \/ \E t \in Tasks : showBookHandler(t)
    \/ \E t \in Tasks : replaceBookHandler(t)
    \/ \E t \in Tasks : replaceBookHandlerWrite(t)
    \/ \E t \in Tasks : updateBookHandler(t)
    \/ \E t \in Tasks : updateBookHandlerWrite(t)
    \/ \E t \in Tasks : deleteBookHandler(t)
    \/ Tick

(* ------------------------ cmd/api/middleware.go ------------------------ *)

\* Remote addresses: <<host, port>>, or <<host>> for one without a port.
Addr1 == <<"10.0.0.1", "5000">>
Addr2 == <<"10.0.0.2", "6000">>
NoPort == <<"10.0.0.1">>

Ips == { "10.0.0.1", "10.0.0.2" }

\* net.SplitHostPort
SplitHostPort(addr) ==
    IF Len(addr) = 2 THEN [host |-> addr[1], err |-> Nil]
    ELSE [host |-> "", err |-> "missing port in address"]

Unlocked == "unlocked"
Cleaner == "cleanup"

Min(a, b) == IF a <= b THEN a ELSE b

\* Token counts are kept in units of 1/TicksPerSecond of a token, so that
\* one tick adds RefillPerSecond units and a request takes TicksPerSecond.
OneToken == TicksPerSecond
Full == Burst * OneToken

\* rate.NewLimiter(rate.Limit(2), 4): the bucket starts full.
NewLimiter == [tokens |-> Full, last |-> 0]

\* The tokens of a limiter at time t: refilled since its last update, capped
\* at the burst.
TokensAt(lim, t) ==
    Min(Full, lim.tokens + (t - lim.last) * RefillPerSecond)

\* A mutant of Allow: the bucket is never refilled.
AllowNoRefill(lim, t) ==
    IF lim.tokens >= OneToken
    THEN [ok |-> TRUE, lim |-> [tokens |-> lim.tokens - OneToken, last |-> t]]
    ELSE [ok |-> FALSE, lim |-> lim]

\* A mutant of Allow: a request is let through without taking a token.
AllowFree(lim, t) == [ok |-> TRUE, lim |-> lim]

\* limiter.Allow() at time t: takes one token if there is one.
Allow(lim, t) ==
    IF TokensAt(lim, t) >= OneToken
    THEN [ok |-> TRUE,
          lim |-> [tokens |-> TokensAt(lim, t) - OneToken, last |-> t]]
    ELSE [ok |-> FALSE, lim |-> lim]

\* A request task outside the middleware.  took says that Allow gave the
\* request a token, forwarded that next.ServeHTTP was called for it.
IdleRequest ==
    [pc |-> "idle", addr |-> <<>>, ip |-> "", status |-> 0,
     took |-> FALSE, forwarded |-> FALSE]

\* What is remembered of an ip's requests: n counts the requests since the
\* last one that found the bucket full (that one included; 0 when there is
\* none, 6 for more than 5), span is the time from the first of them to the
\* latest and span4 the time from the first to the fourth (both kept for the
\* fourth and fifth only); ok and t are the decision and the time of the
\* latest request, gap the time since the one before it and prevOk that one's
\* decision (seen says that there was one).  span, span4 and gap stop at one
\* second.
NoHist ==
    [n |-> 0, span |-> 0, span4 |-> 0, ok |-> TRUE, t |-> 0,
     seen |-> FALSE, prevOk |-> TRUE, gap |-> 0]

Record(h, full, ok, t) ==
    LET n  == IF full THEN 1
              ELSE IF h.n = 0 THEN 0
              ELSE Min(h.n + 1, 6)
        t1 == h.t - h.span
    IN  [n |-> n,
         span |-> IF n \in 2 .. 5 THEN Min(t - t1, Second) ELSE 0,
         span4 |-> IF n = 4 THEN Min(t - t1, Second)
                   ELSE IF n = 5 THEN h.span4 ELSE 0,
         ok |-> ok, t |-> t,
         seen |-> h.n # 0 \/ h.seen \/ ~h.ok \/ h.t # 0,
         prevOk |-> h.ok,
         gap |-> Min(t - h.t, Second)]

\* A mutant of rateLimit: the error of net.SplitHostPort is ignored.
rateLimitIgnoreErr(t, addr) ==
    /\ rl[t].pc \in {"idle", "done"}
    /\ nlim' = nlim + 1
    /\ rl' = [rl EXCEPT ![t] =
                 [IdleRequest EXCEPT !.addr = addr, !.pc = "lock",
                                     !.ip = SplitHostPort(addr).host]]
    /\ UNCHANGED <<now, clients, mu, cleanup, hist>>

\* The handler that rateLimit returns, called for a request from addr, up
\* to net.SplitHostPort.
rateLimit(t, addr) ==
    /\ rl[t].pc \in {"idle", "done"}
    /\ nlim' = nlim + 1
    /\ LET split == SplitHostPort(addr)
           r0 == [IdleRequest EXCEPT !.addr = addr, !.ip = split.host]
       IN  rl' = [rl EXCEPT ![t] =
               IF split.err # Nil
               THEN [r0 EXCEPT !.pc = "done", !.status = 500]
               ELSE [r0 EXCEPT !.pc = "lock"]]
    /\ UNCHANGED <<now, clients, mu, cleanup, hist>>

\* mu.Lock()
rateLimitLock(t) ==
    /\ rl[t].pc = "lock"
    /\ mu = Unlocked
    /\ mu' = t
    /\ rl' = [rl EXCEPT ![t].pc = "lookup"]
    /\ UNCHANGED <<now, clients, cleanup, hist, nlim>>

\* if _, found := clients[ip]; !found { clients[ip] = &client{...} }
rateLimitLookup(t) ==
    /\ rl[t].pc = "lookup"
    /\ clients' = IF rl[t].ip \in DOMAIN clients THEN clients
                  ELSE (rl[t].ip :> [limiter |-> NewLimiter, lastSeen |-> 0])
                       @@ clients
    /\ rl' = [rl EXCEPT ![t].pc = "stamp"]
    /\ UNCHANGED <<now, mu, cleanup, hist, nlim>>

\* A mutant of rateLimitStamp: lastSeen is left as it was.
rateLimitNoStamp(t) ==
    /\ rl[t].pc = "stamp"
    /\ rl' = [rl EXCEPT ![t].pc = "allow"]
    /\ UNCHANGED <<now, clients, mu, cleanup, hist, nlim>>

\* clients[ip].lastSeen = time.Now()
rateLimitStamp(t) ==
    /\ rl[t].pc = "stamp"
    /\ clients' = [clients EXCEPT ![rl[t].ip].lastSeen = now]
    /\ rl' = [rl EXCEPT ![t].pc = "allow"]
    /\ UNCHANGED <<now, mu, cleanup, hist, nlim>>

\* A mutant of rateLimitAllow: the registry keeps one bucket for all ips.
rateLimitAllowShared(t) ==
    /\ rl[t].pc = "allow"
    /\ LET ip  == rl[t].ip
           lim == clients[ip].limiter
           res == Allow(lim, now)
       IN  /\ clients' = [i \in DOMAIN clients |->
                             [clients[i] EXCEPT !.limiter = res.lim]]
           /\ rl' = [rl EXCEPT ![t].pc = IF res.ok THEN "admit" ELSE "refuse",
                               ![t].took = res.ok]
           /\ hist' = [hist EXCEPT ![ip] =
                          Record(@, TokensAt(lim, now) = Full, res.ok, now)]
    /\ UNCHANGED <<now, mu, cleanup, nlim>>

\* clients[ip].limiter.Allow()
rateLimitAllow(t) ==
    /\ rl[t].pc = "allow"
    /\ LET ip  == rl[t].ip
           lim == clients[ip].limiter
           res == Allow(lim, now)
       IN  /\ clients' = [clients EXCEPT ![ip].limiter = res.lim]
           /\ rl' = [rl EXCEPT ![t].pc = IF res.ok THEN "admit" ELSE "refuse",
                               ![t].took = res.ok]
           /\ hist' = [hist EXCEPT ![ip] =
                          Record(@, TokensAt(lim, now) = Full, res.ok, now)]
    /\ UNCHANGED <<now, mu, cleanup, nlim>>

\* A mutant of rateLimitRefuse: the mutex is not released before the return.
rateLimitRefuseLocked(t) ==
    /\ rl[t].pc = "refuse"
    /\ rl' = [rl EXCEPT ![t].pc = "respond"]
    /\ UNCHANGED <<now, clients, cleanup, hist, mu, nlim>>

\* The refused request: mu.Unlock()
rateLimitRefuse(t) ==
    /\ rl[t].pc = "refuse"
    /\ mu' = Unlocked
    /\ rl' = [rl EXCEPT ![t].pc = "respond"]
    /\ UNCHANGED <<now, clients, cleanup, hist, nlim>>

\* A mutant of rateLimitExceededResponse: the request is forwarded all the same.
rateLimitExceededForward(t) ==
    /\ rl[t].pc = "respond"
    /\ rl' = [rl EXCEPT ![t].pc = "serving", ![t].forwarded = TRUE]
    /\ UNCHANGED <<now, clients, mu, cleanup, hist, nlim>>

\* The refused request: app.rateLimitExceededResponse(w, r); return
rateLimitExceededResponse(t) ==
    /\ rl[t].pc = "respond"
    /\ rl' = [rl EXCEPT ![t].pc = "done", ![t].status = 429]
    /\ UNCHANGED <<now, clients, mu, cleanup, hist, nlim>>

\* The admitted request: mu.Unlock()
rateLimitAdmit(t) ==
    /\ rl[t].pc = "admit"
    /\ mu' = Unlocked
    /\ rl' = [rl EXCEPT ![t].pc = "next"]
    /\ UNCHANGED <<now, clients, cleanup, hist, nlim>>

\* The admitted request: next.ServeHTTP(w, r) is called
rateLimitNext(t) ==
    /\ rl[t].pc = "next"
    /\ rl' = [rl EXCEPT ![t].pc = "serving", ![t].forwarded = TRUE]
    /\ UNCHANGED <<now, clients, mu, cleanup, hist, nlim>>

\* next.ServeHTTP returns, with the wrapped handler's answer
nextReturns(t) ==
    /\ rl[t].pc = "serving"
    /\ rl' = [rl EXCEPT ![t].pc = "done", ![t].status = 200]
    /\ UNCHANGED <<now, clients, mu, cleanup, hist, nlim>>

\* The cleanup goroutine: time.Sleep(time.Minute) returns
cleanupWake ==
    /\ cleanup.pc = "sleep"
    /\ now >= cleanup.wake
    /\ cleanup' = [cleanup EXCEPT !.pc = "lock"]
    /\ UNCHANGED <<now, clients, mu, rl, hist, nlim>>

\* The cleanup goroutine: mu.Lock()
cleanupLock ==
    /\ cleanup.pc = "lock"
    /\ mu = Unlocked
    /\ mu' = Cleaner
    /\ cleanup' = [cleanup EXCEPT !.pc = "scan"]
    /\ UNCHANGED <<now, clients, rl, hist, nlim>>

\* A mutant of Stale: the threshold is two sweeps too long.
StaleLate(ip) ==
    now - clients[ip].lastSeen > StaleAfter + 2 * SweepInterval

\* A mutant of Stale: every entry is deleted, however lately it was used.
StaleAtOnce(ip) == now - clients[ip].lastSeen >= 0

\* The entries the cleanup loop deletes.
Stale(ip) == now - clients[ip].lastSeen > StaleAfter

\* The cleanup goroutine: for ip, c := range clients { ... delete(clients, ip) }
cleanupScan ==
    /\ cleanup.pc = "scan"
    /\ clients' = [ip \in {i \in DOMAIN clients : ~Stale(i)} |-> clients[ip]]
    /\ cleanup' = [cleanup EXCEPT !.pc = "unlock"]
    /\ UNCHANGED <<now, mu, rl, hist, nlim>>

\* The cleanup goroutine: mu.Unlock(), and the loop sleeps again
cleanupUnlock ==
    /\ cleanup.pc = "unlock"
    /\ mu' = Unlocked
    /\ cleanup' = [pc |-> "sleep", wake |-> now + SweepInterval]
    /\ UNCHANGED <<now, clients, rl, hist, nlim>>

\* Time passes, by one tick or up to the cleanup goroutine's wake-up.  The
\* goroutine is taken to wake on time and to finish its sweep at once: time
\* stands still while it is awake.
TimePasses ==
    /\ cleanup.pc = "sleep"
    /\ \E d \in {1, cleanup.wake - now} :
          /\ d > 0
          /\ now + d <= cleanup.wake
          /\ d = 1 => now - (cleanup.wake - SweepInterval) < MaxTicks
          /\ now + d <= Horizon + MaxTicks
          /\ now' = now + d
    /\ UNCHANGED <<clients, mu, cleanup, rl, hist, nlim>>

\* What an observer of the middleware has written down for an ip.  debt is
\* the largest value, over all windows of time that end at the ip's latest
\* admission `at`, of the admissions in the window less the tokens that the
\* refill rate yields in the window's length (in units of 1/TicksPerSecond
\* of a token): the window that gives the largest value either ends the
\* window that did so at the admission before, or holds the new admission
\* alone.  shadow is a limiter of the observer's own that is made once, is
\* asked at every decision of the ip and is never evicted, and same says
\* whether all decisions so far were the shadow's.  made counts the times
\* that an entry was made for the ip, up to 2, and seen is the time of the
\* latest stamp by a request of the ip.
NoObs ==
    [debt |-> 0, at |-> 0, shadow |-> NewLimiter, same |-> TRUE, made |-> 0,
     seen |-> 0]

Max(a, b) == IF a >= b THEN a ELSE b

\* The observer's entry in a step: when the step is a call of Allow for a
\* request of the ip, its outcome is written down and the shadow is asked;
\* when the step makes an entry for the ip, that is counted.
Observe ==
    obs' = [ip \in Ips |->
               IF ip \notin DOMAIN clients /\ ip \in DOMAIN clients'
               THEN [obs[ip] EXCEPT !.made = Min(@ + 1, 2)]
               ELSE IF \E t \in Tasks : rl[t].pc = "allow" /\ rl[t].ip = ip
                                   /\ rl'[t].pc # "allow"
               THEN LET ok  == \E t \in Tasks : rl[t].pc = "allow"
                                                /\ rl'[t].pc = "admit"
                        res == Allow(obs[ip].shadow, now)
                        o   == obs[ip]
                    IN  [debt |-> IF ok
                                  THEN Max(0, o.debt - (now - o.at)
                                                        * RefillPerSecond)
                                       + OneToken
                                  ELSE o.debt,
                         at     |-> IF ok THEN now ELSE o.at,
                         shadow |-> res.lim,
                         same   |-> o.same /\ (res.ok <=> ok),
                         made   |-> o.made,
                         seen   |-> o.seen]
               ELSE IF \E t \in Tasks : rl[t].pc = "stamp" /\ rl[t].ip = ip
                                   /\ rl'[t].pc # "stamp"
               THEN [obs[ip] EXCEPT !.seen = now]
               ELSE obs[ip]]

RLInit ==
    /\ now = 0
    /\ clients = [i \in {} |-> [limiter |-> NewLimiter, lastSeen |-> 0]]
    /\ mu = Unlocked
    /\ cleanup = [pc |-> "sleep", wake |-> SweepInterval]
    /\ rl = [t \in Tasks |-> IdleRequest]
    /\ hist = [ip \in Ips |-> NoHist]
    /\ nlim = 0
    /\ obs = [ip \in Ips |-> NoObs]

\* The steps of the middleware and of its cleanup goroutine.
RLStep ==
    \/ \E t \in Tasks : rateLimitLock(t)
    \/ \E t \in Tasks : rateLimitLookup(t)
    \/ \E t \in Tasks : rateLimitStamp(t)
    \/ \E t \in Tasks : rateLimitAllow(t)
    \/ \E t \in Tasks : rateLimitRefuse(t)
    \/ \E t \in Tasks : rateLimitExceededResponse(t)
    \/ \E t \in Tasks : rateLimitAdmit(t)
    \/ \E t \in Tasks : rateLimitNext(t)
    \/ \E t \in Tasks : nextReturns(t)
    \/ cleanupWake
    \/ cleanupLock
    \/ cleanupScan
    \/ cleanupUnlock

\* One task serves the requests of one ip, some of them with a bad address.
RLNext ==
    \/ \E addr \in {Addr1, NoPort} : nlim < MaxLimited /\ rateLimit("t1", addr)
    \/ RLStep
    \/ TimePasses

\* The tasks serve the requests of two ips, until the first sweep is over.
\* The ips being alike, the first task serves the first ip only and the
\* second task serves both.
RLSharedNext ==
    \/ \E t \in Tasks : \E addr \in {Addr1, Addr2} :
          /\ nlim < MaxShared
          /\ t = "t1" => addr = Addr1
          /\ rateLimit(t, addr)
    \/ RLStep
    \/ now < SweepInterval /\ TimePasses

(* ------------------- cmd/api/server.go, cmd/api/routes.go -------------- *)

Methods == {"GET", "POST", "PUT", "PATCH", "DELETE"}

\* Request paths: the collection, one book, and a path no route matches.
Paths == {"/v1/books", "/v1/books/:id", "/v1/healthcheck"}

\* routes(): the routes registered on the router, and the middleware that
\* wraps the router in the handler it returns, outermost first (none: the
\* router itself is returned).
routes ==
    [wraps |-> <<>>,
     table |-> { <<"POST",   "/v1/books",     "createBookHandler">>,
                 <<"GET",    "/v1/books/:id", "showBookHandler">>,
                 <<"GET",    "/v1/books",     "listBooksHandler">>,
                 <<"PATCH",  "/v1/books/:id", "updateBookHandler">>,
                 <<"DELETE", "/v1/books/:id", "deleteBookHandler">> }]

\* serve(): http.Server{Handler: app.routes()}
serverHandler == routes

\* The router's answer to a method and path: the handler of the route that
\* matches, 405 when the path has routes for other methods only, else 404.
Match(h, method, path) ==
    IF \E r \in h.table : r[1] = method /\ r[2] = path
    THEN [status |-> 0,
          handler |-> (CHOOSE r \in h.table : r[1] = method /\ r[2] = path)[3]]
    ELSE IF \E r \in h.table : r[2] = path
    THEN [status |-> 405, handler |-> ""]
    ELSE [status |-> 404, handler |-> ""]

IdleConn ==
    [pc |-> "idle", method |-> "", path |-> "", passed |-> <<>>,
     handler |-> "", status |-> 0]

\* The server reads a request from a connection.
Accept(t) ==
    /\ conn[t].pc \in {"idle", "done"}
    /\ \E m \in Methods : \E p \in Paths :
          conn' = [conn EXCEPT ![t] =
                      [IdleConn EXCEPT !.pc = "accepted", !.method = m,
                                       !.path = p]]

\* The server calls its Handler: the request passes the wrapping middleware
\* and the router, which calls the route's handler or answers itself.
ServeHTTP(t) ==
    /\ conn[t].pc = "accepted"
    /\ LET m == Match(serverHandler, conn[t].method, conn[t].path)
       IN  conn' = [conn EXCEPT
               ![t].passed = serverHandler.wraps,
               ![t].handler = m.handler,
               ![t].status = m.status,
               ![t].pc = IF m.status = 0 THEN "handler" ELSE "done"]

\* The route's handler returns.
HandlerReturns(t) ==
    /\ conn[t].pc = "handler"
    /\ conn' = [conn EXCEPT ![t].pc = "done"]

\* The process before main() has run.
NewProcess == [pc |-> "main", signal |-> "", waited |-> 0, code |-> 0]

ServeInit ==
    /\ conn = [t \in Tasks |-> IdleConn]
    /\ proc = NewProcess

ServeNext ==
    \/ \E t \in Tasks : Accept(t) /\ UNCHANGED proc
    \/ \E t \in Tasks : ServeHTTP(t) /\ UNCHANGED proc
    \/ \E t \in Tasks : HandlerReturns(t) /\ UNCHANGED proc

(* ------------------------------- main() -------------------------------- *)

\* The signals that end a process by default.
Signals == {"SIGINT", "SIGTERM"}

\* Seconds that Shutdown in serve() gives the requests in flight.
ShutdownTimeout == 20

\* main() up to ListenAndServe: flags, logger, openDB, the dependencies and
\* the http.Server with Handler: routes().  When the database cannot be
\* reached, or the port cannot be bound, main logs the error and calls
\* os.Exit(1).
main ==
    /\ proc.pc = "main"
    /\ \E ok \in BOOLEAN :
          proc' = IF ok THEN [proc EXCEPT !.pc = "ListenAndServe"]
                  ELSE [proc EXCEPT !.pc = "exited", !.code = 1]
    /\ UNCHANGED conn

\* The server's work while main() is blocked in ListenAndServe.
mainServes ==
    /\ proc.pc = "ListenAndServe"
    /\ \E t \in Tasks : Accept(t) \/ ServeHTTP(t) \/ HandlerReturns(t)
    /\ UNCHANGED proc

\* The process receives SIGINT or SIGTERM while main() is blocked in
\* ListenAndServe.  main() has not called signal.Notify and has not called
\* serve(), so the Go runtime's default applies: the process exits at once,
\* whatever its requests are doing.
mainSignalled ==
    /\ proc.pc = "ListenAndServe"
    /\ \E sig \in Signals :
          proc' = [proc EXCEPT !.pc = "exited", !.signal = sig, !.waited = 0,
                               !.code = 2]
    /\ UNCHANGED conn

MainNext == main \/ mainServes \/ mainSignalled

(* ------------- listBooksHandler, Filters and BookModel.GetAll ---------- *)

\* Rows that the table of a list request is drawn from.
MaxRows == 4

\* The value of a decimal digit.
DigitOf ==
    ("0" :> 0) @@ ("1" :> 1) @@ ("2" :> 2) @@ ("3" :> 3) @@ ("4" :> 4) @@
    ("5" :> 5) @@ ("6" :> 6) @@ ("7" :> 7) @@ ("8" :> 8) @@ ("9" :> 9)

RECURSIVE AllDigits(_)
AllDigits(s) ==
    IF s = "" THEN TRUE
    ELSE Head(s) \in DOMAIN DigitOf /\ AllDigits(Tail(s))

RECURSIVE TrimZeros(_)
TrimZeros(s) ==
    IF Len(s) > 1 /\ Head(s) = "0" THEN TrimZeros(Tail(s)) ELSE s

RECURSIVE Decimal(_, _)
Decimal(s, acc) ==
    IF s = "" THEN acc ELSE Decimal(Tail(s), 10 * acc + DigitOf[Head(s)])

\* Numerals of up to NineDigits digits have their value; longer ones that
\* still fit an int stand for a value of AtLeast or more.
NineDigits == 9
AtLeast == 1000000000

\* The longest numeral that can fit a 64-bit int.
Int64Digits == 19

\* strconv.Atoi: an optional sign and decimal digits, within the int range.
Atoi(s) ==
    LET signed == s # "" /\ Head(s) \in {"+", "-"}
        digits == IF signed THEN Tail(s) ELSE s
        sig    == TrimZeros(digits)
        sign   == IF signed /\ Head(s) = "-" THEN -1 ELSE 1
    IN  IF digits = "" \/ ~AllDigits(digits)
        THEN [n |-> 0, err |-> "invalid syntax"]
        ELSE IF Len(sig) > Int64Digits
        THEN [n |-> 0, err |-> "value out of range"]
        ELSE IF Len(sig) > NineDigits
        THEN [n |-> sign * AtLeast, err |-> Nil]
        ELSE [n |-> sign * Decimal(sig, 0), err |-> Nil]

\* readString: the value of the key, or the default when it is empty.
readString(qs, key, defaultValue) ==
    IF qs[key] = "" THEN defaultValue ELSE qs[key]

\* readInt: the value of the key as an integer, or the default when it is
\* empty or not an integer that Atoi accepts.
readInt(qs, key, defaultValue) ==
    IF qs[key] = "" THEN defaultValue
    ELSE IF Atoi(qs[key]).err # Nil THEN defaultValue
    ELSE Atoi(qs[key]).n

\* validator.In
In(value, list) == \E i \in DOMAIN list : list[i] = value

\* strings.HasPrefix, strings.TrimPrefix
HasPrefix(s, prefix) ==
    Len(s) >= Len(prefix) /\ SubSeq(s, 1, Len(prefix)) = prefix

TrimPrefix(s, prefix) ==
    IF HasPrefix(s, prefix) THEN SubSeq(s, Len(prefix) + 1, Len(s)) ELSE s

\* The safelist that listBooksHandler validates against and passes on.
SortSafeList ==
    <<"book_id", "title", "publication_year",
      "-book_id", "-title", "-publication_year">>

MaxPage == 10000000
MaxPageSize == 100
DefaultPage == 1
DefaultPageSize == 10

\* A mutant of sortColumn: the sort string is used whether safe or not.
sortColumnUnsafe(f) == TrimPrefix(f.Sort, "-")

\* Filters.sortColumn
sortColumn(f) ==
    IF \E i \in DOMAIN f.SortSafeList : f.Sort = f.SortSafeList[i]
    THEN TrimPrefix(f.Sort, "-")
    ELSE "book_id"

\* Filters.sortDirection
sortDirection(f) == IF HasPrefix(f.Sort, "-") THEN "DESC" ELSE "ASC"

\* Filters.limit
limit(f) == f.PageSize

\* A mutant of offset: the pages are counted from 0.
offsetFromZero(f) == f.Page * f.PageSize

\* Filters.offset
offset(f) == (f.Page - 1) * f.PageSize

\* Metadata{}
ZeroMetadata ==
    [current_page |-> 0, page_size |-> 0, first_page |-> 0, last_page |-> 0,
     total_records |-> 0]

\* int(math.Ceil(float64(a) / float64(b))) for b > 0 and a below 2^53, where
\* the conversions and the division lose nothing that Ceil would see.
Ceil(a, b) == IF a % b = 0 THEN a \div b ELSE (a \div b) + 1

\* A mutant of calculateMetadata: the last page is rounded down.
calculateMetadataFloor(totalRecords, page, pageSize) ==
    IF totalRecords = 0 THEN ZeroMetadata
    ELSE [current_page |-> page, page_size |-> pageSize, first_page |-> 1,
          last_page |-> totalRecords \div pageSize,
          total_records |-> totalRecords]

\* calculateMetadata
calculateMetadata(totalRecords, page, pageSize) ==
    IF totalRecords = 0 THEN ZeroMetadata
    ELSE [current_page |-> page, page_size |-> pageSize, first_page |-> 1,
          last_page |-> Ceil(totalRecords, pageSize),
          total_records |-> totalRecords]

\* The order of PostgreSQL's text comparison on the titles of the rows.
TitleRank == ("A" :> 1) @@ ("B" :> 2)

\* The value that ORDER BY compares for a column.
SortKey(row, column) ==
    CASE column = "title" -> TitleRank[row.title]
      [] column = "publication_year" -> row.publication_year
      [] OTHER -> row.book_id

\* A mutant of Follows: ORDER BY without ", book_id ASC".
FollowsNoTieBreak(a, b, column, direction) ==
    /\ direction = "ASC" => SortKey(a, column) <= SortKey(b, column)
    /\ direction = "DESC" => SortKey(a, column) >= SortKey(b, column)

\* ORDER BY column direction, book_id ASC: row a may come before row b.
Follows(a, b, column, direction) ==
    IF SortKey(a, column) # SortKey(b, column)
    THEN /\ direction = "ASC" => SortKey(a, column) < SortKey(b, column)
         /\ direction = "DESC" => SortKey(a, column) > SortKey(b, column)
    ELSE a.book_id <= b.book_id

\* The orders in which the database may return the rows of the table for
\* an ORDER BY clause: every arrangement of the rows that the clause allows.
Orderings(column, direction) ==
    LET n == Cardinality(DOMAIN books)
    IN  { ord \in [1 .. n -> DOMAIN books] :
            /\ \A i \in 1 .. n : \A j \in 1 .. n : i # j => ord[i] # ord[j]
            /\ \A i \in 1 .. n : \A j \in 1 .. n :
                  i < j => Follows(books[ord[i]], books[ord[j]],
                                   column, direction) }

\* BookModel.GetAll, for the order ord of the rows: LIMIT and OFFSET cut the
\* page out, count(*) OVER() is scanned from every row returned, and the
\* metadata is computed from the count scanned last (0 when no row came).
GetAll(f, ord) ==
    LET n     == Len(ord)
        first == offset(f) + 1
        last  == IF offset(f) + limit(f) < n THEN offset(f) + limit(f) ELSE n
        rows  == [i \in 1 .. (IF last >= first THEN last - first + 1 ELSE 0)
                     |-> books[ord[first + i - 1]]]
        totalRecords == IF rows = <<>> THEN 0 ELSE n
    IN  IF limit(f) < 0 \/ offset(f) < 0
        THEN [books |-> <<>>, metadata |-> ZeroMetadata,
              err |-> "pq: LIMIT and OFFSET must not be negative"]
        ELSE [books |-> rows,
              metadata |-> calculateMetadata(totalRecords, f.Page, f.PageSize),
              err |-> Nil]

ZeroFilters == [Page |-> 0, PageSize |-> 0, Sort |-> "", SortSafeList |-> <<>>]

\* A request task that runs no list request.  queried says that GetAll was
\* called.
IdleList ==
    [pc |-> "idle", qs |-> [page |-> "", page_size |-> "", sort |-> ""],
     filters |-> ZeroFilters, status |-> 0, errors |-> New, queried |-> FALSE,
     books |-> <<>>, metadata |-> ZeroMetadata]

\* GET /v1/books?page=&page_size=&sort=
listBooksHandler(t, page, page_size, sort) ==
    /\ lreq[t].pc \in {"idle", "done"}
    /\ LET qs == [page |-> page, page_size |-> page_size, sort |-> sort]
           Page == readInt(qs, "page", DefaultPage)
           PageSize == readInt(qs, "page_size", DefaultPageSize)
           Sort == readString(qs, "sort", "book_id")
           v1 == Check(New, Page > 0, "page", "must be greater than zero")
           v2 == Check(v1, Page <= MaxPage, "page",
                       "must be a maximum of 10 million")
           v3 == Check(v2, PageSize > 0, "page_size",
                       "must be greater than zero")
           v4 == Check(v3, PageSize <= MaxPageSize, "page_size",
                       "must be a maximum of 100")
           v  == Check(v4, In(Sort, SortSafeList), "sort", "invalid sort value")
           f  == [Page |-> Page, PageSize |-> PageSize, Sort |-> Sort,
                  SortSafeList |-> SortSafeList]
           r0 == [IdleList EXCEPT !.pc = "done", !.qs = qs]
       IN  IF ~Valid(v)
           THEN lreq' = [lreq EXCEPT ![t] =
                            [r0 EXCEPT !.status = 422, !.errors = v]]
           ELSE \E ord \in Orderings(sortColumn(f), sortDirection(f)) :
                   LET res == GetAll(f, ord)
                   IN  lreq' = [lreq EXCEPT ![t] =
                           [r0 EXCEPT !.filters = f, !.queried = TRUE,
                                      !.books = res.books,
                                      !.metadata = res.metadata,
                                      !.status = IF res.err # Nil THEN 500
                                                 ELSE 200]]
    /\ UNCHANGED <<books, seq, clock, task, deleted, nreq, calc>>

\* The rows of the tables that list requests run on: valid books, two
\* titles and three years among them.
CatalogueBook(i) ==
    [ZeroBook EXCEPT !.book_id = i,
                     !.title = IF i % 2 = 1 THEN "B" ELSE "A",
                     !.isbn = "978000000000" \o SubSeq("0123456789", i + 1, i + 1),
                     !.publisher = "P",
                     !.publication_year = 2020 + (i % 3),
                     !.created_at = 1, !.updated_at = 1]

\* Query parameters as they come in the URL.
PageParams ==
    {"", "1", "2", "3", "0", "-1", "10000000", "10000001", "abc",
     "99999999999999999999"}

PageSizeParams == {"", "1", "2", "100", "0", "101", "ten"}

SortParams ==
    {"", "book_id", "title", "-title", "-publication_year", "foo", "-isbn"}

\* One task serves a list request with any kind of query parameter.
ListNext ==
    /\ lreq["t1"].pc = "idle"
    /\ \E page \in PageParams : \E page_size \in PageSizeParams :
          \E sort \in SortParams :
             listBooksHandler("t1", page, page_size, sort)

\* Every task serves a list request with valid parameters.
PagesNext ==
    \E t \in Tasks : \E page \in {"1", "2", "3", "10000000"} :
       \E page_size \in {"1", "2", "100"} :
          \E sort \in {"book_id", "title", "-title", "-publication_year"} :
             lreq[t].pc = "idle" /\ listBooksHandler(t, page, page_size, sort)

(* ------------------------- functions on their own ---------------------- *)

\* Largest number of records that calculateMetadata is called with.
MaxTotal == 26

\* Largest page that calculateMetadata is called with.
MaxCalcPage == 3

\* Most Check calls made on one Validator.
MaxChecks == 3

NoCall == [fn |-> "", args |-> <<>>, out |-> <<>>]

\* calculateMetadata is called.
callCalculateMetadata ==
    /\ calc = NoCall
    /\ \E total \in 0 .. MaxTotal : \E page \in 0 .. MaxCalcPage :
          \E pageSize \in 1 .. MaxPageSize :
             calc' = [fn |-> "calculateMetadata",
                      args |-> <<total, page, pageSize>>,
                      out |-> <<calculateMetadata(total, page, pageSize)>>]

\* Sort strings, safe and not, that the resolver is called with.
SortStrings ==
    {"", "-", "book_id", "-book_id", "title", "-title", "publication_year",
     "-publication_year", "isbn", "-isbn", "--title", "title-", "Title",
     "-foo; DROP TABLE books"}

SafeLists == {SortSafeList, <<>>, <<"isbn", "-isbn", "--title">>}

\* sortColumn and sortDirection are called on a Filters value.
callSort ==
    /\ calc = NoCall
    /\ \E sort \in SortStrings : \E safe \in SafeLists :
          LET f == [Page |-> 1, PageSize |-> 10, Sort |-> sort,
                    SortSafeList |-> safe]
          IN  calc' = [fn |-> "sort", args |-> <<sort, safe>>,
                       out |-> <<sortColumn(f), sortDirection(f)>>]

\* validator.New() is called.
callNew ==
    /\ calc = NoCall
    /\ calc' = [fn |-> "Check", args |-> <<>>, out |-> New]

\* Check is called on the Validator made last.
callCheck ==
    /\ calc.fn = "Check"
    /\ Len(calc.args) < MaxChecks
    /\ \E ok \in BOOLEAN : \E key \in {"title", "isbn"} :
       \E message \in {"must be provided", "is too long"} :
          calc' = [calc EXCEPT
                      !.args = Append(@, [ok |-> ok, key |-> key,
                                          message |-> message]),
                      !.out = Check(@, ok, key, message)]

\* logError: the entry written to the log, the error's text with the
\* request's method and URL as attributes.
logError(method, url, err) ==
    [msg |-> err, request_method |-> method, request_url |-> url]

\* errorResponse: the status and the JSON envelope sent to the client.
errorResponse(status, message) ==
    [status |-> status, body |-> [error |-> message]]

\* serverErrorResponse of errors.go: what is logged and what is sent.
serverErrorResponse(method, url, err) ==
    [log |-> logError(method, url, err),
     response |-> errorResponse(500,
        "the server encountered a problem and could not process your request")]

\* serverErrorResponse of the helpers.go that defines the error helpers
\* itself: app.logger.Error(err.Error()) and a 500 written directly.
serverErrorResponseHelpers(method, url, err) ==
    [log |-> [msg |-> err],
     response |-> [status |-> 500,
                   body |-> [error |-> "the server encountered a problem"]]]

\* Errors of the store that are not ErrRecordNotFound: those of the
\* database, and a connection that cannot be made.
ErrConnRefused == "dial tcp 127.0.0.1:5432: connect: connection refused"
StoreFaults == {ErrUnique, ErrTooLong, ErrNoRows, ErrConnRefused}

\* A handler calls serverErrorResponse with the error of a store call.  The
\* package holds one of the two definitions; which one is not decided by
\* the sources.
callServerErrorResponse ==
    /\ calc = NoCall
    /\ \E method \in Methods : \E url \in {"/v1/books", "/v1/books/1"} :
       \E err \in StoreFaults :
       \E out \in {serverErrorResponse(method, url, err),
                   serverErrorResponseHelpers(method, url, err)} :
          calc' = [fn |-> "serverErrorResponse", args |-> <<method, url, err>>,
                   out |-> <<out>>]

FnInit ==
    /\ lreq = [t \in Tasks |-> IdleList]
    /\ calc = NoCall

FnNext ==
    \/ callCalculateMetadata
    \/ callSort
    \/ callNew
    \/ callCheck
    \/ callServerErrorResponse

(* --------------------------- specifications ---------------------------- *)

Init == StoreInit /\ RLInit /\ ServeInit /\ FnInit

\* The handlers over the books table.
Next == StoreNext /\ UNCHANGED <<rlVars, serveVars, fnVars>>

Spec == Init /\ [][Next]_vars

\* The rate limiter, one task and one ip.
SpecRL ==
    Init /\ [][RLNext /\ Observe
               /\ UNCHANGED <<storeVars, serveVars, fnVars>>]_vars

\* The rate limiter, all tasks and two ips.
SpecRLShared ==
    Init /\ [][RLSharedNext /\ Observe
               /\ UNCHANGED <<storeVars, serveVars, fnVars>>]_vars

\* The server's handler chain.
SpecServe ==
    Init /\ [][ServeNext /\ UNCHANGED <<storeVars, rlVars, fnVars>>]_vars

\* The process from the start of main() to its end.
SpecMain ==
    Init /\ [][MainNext /\ UNCHANGED <<storeVars, rlVars, fnVars>>]_vars

\* A books table with any of the catalogue's rows, the others deleted.
ListInit ==
    /\ \E ids \in SUBSET (1 .. MaxRows) :
          /\ books = [i \in ids |-> CatalogueBook(i)]
          /\ deleted = (1 .. MaxRows) \ ids
    /\ seq = MaxRows
    /\ clock = 1
    /\ task = [t \in Tasks |-> IdleTask]
    /\ nreq = 0
    /\ RLInit /\ ServeInit /\ FnInit

\* The handlers over the books table together with one list request, with
\* a page that is accepted or one that is refused.  Once MaxFramed requests
\* were taken, those that have fetched their book run to their end.
FrameNext ==
    \/ nreq < MaxFramed /\ StoreNext /\ UNCHANGED fnVars
    \/ /\ nreq >= MaxFramed
       /\ \/ \E t \in Tasks : replaceBookHandlerWrite(t)
          \/ \E t \in Tasks : updateBookHandlerWrite(t)
          \/ Tick
       /\ UNCHANGED fnVars
    \/ \E page \in {"1", "0"} :
          /\ lreq["t1"].pc = "idle"
          /\ listBooksHandler("t1", page, "2", "-book_id")

SpecFrame == Init /\ [][FrameNext /\ UNCHANGED <<rlVars, serveVars>>]_vars

\* List requests with every kind of query, one after the other.
SpecList == ListInit /\ [][ListNext /\ UNCHANGED <<rlVars, serveVars>>]_vars

\* List requests of all tasks on the same table.
SpecPages == ListInit /\ [][PagesNext /\ UNCHANGED <<rlVars, serveVars>>]_vars

\* Calls of the resolver, of calculateMetadata and of the Validator.
SpecFn ==
    Init /\ [][FnNext /\ UNCHANGED <<storeVars, rlVars, serveVars, lreq>>]_vars

(* ------------------------------ properties ----------------------------- *)

Done(t, h) == task[t].pc = "done" /\ task[t].handler = h

\* C1: whatever creates, replaces, partial updates and deletes have run, and
\* however they interleaved, every row of the books table has a non-empty
\* title of at most 255 characters, an isbn of exactly 13 characters, a
\* non-empty publisher, a publication_year in 1 .. 2026 and a minimum_age
\* that is not negative.
C1_StoredBooksValid ==
    \A id \in DOMAIN books :
        LET b == books[id]
        IN  /\ b.title # "" /\ Len(b.title) <= 255
            /\ Len(b.isbn) = 13
            /\ b.publisher # ""
            /\ b.publication_year > 0 /\ b.publication_year <= 2026
            /\ b.minimum_age >= 0

\* A row has been written by a PUT and by a PATCH, both answered 200.
C1_Witness ==
    \E t \in Tasks : \E u \in Tasks \ {t} :
        /\ Done(t, "replaceBookHandler") /\ task[t].status = 200
        /\ Done(u, "updateBookHandler") /\ task[u].status = 200
        /\ task[u].uin # NoInput
        /\ task[t].id \in DOMAIN books
        /\ task[u].id \in DOMAIN books

\* The fields of a book that a request body can carry.
InputFields ==
    {"title", "isbn", "publisher", "publication_year", "minimum_age",
     "description"}

\* C2: a PATCH answered 200 has set every field that its body carries to the
\* body's value, has left every field that its body does not carry at the
\* value the row had when the UPDATE ran, and has changed neither book_id nor
\* created_at.
C2_PatchFrame ==
    \A t \in Tasks :
        Done(t, "updateBookHandler") /\ task[t].status = 200 =>
            /\ \A f \in InputFields :
                  task[t].post[f] = Deref(task[t].uin[f], task[t].pre[f])
            /\ task[t].post.book_id = task[t].pre.book_id
            /\ task[t].post.created_at = task[t].pre.created_at

\* C3: a call of Get, Update or Delete for an id that no row has returns
\* ErrRecordNotFound and leaves the table as it was, and sends no statement
\* when the id is below 1.
C3_NotFoundSentinel ==
    \A t \in Tasks :
        task[t].op \in {"Get", "Update", "Delete"} /\ task[t].miss =>
            /\ task[t].err = ErrRecordNotFound
            /\ ~task[t].changed
            /\ task[t].id < 1 => ~task[t].query

\* C4: a PUT or PATCH whose row is missing when it is fetched or when it is
\* written is answered 404.
C4_MissingRow404 ==
    \A t \in Tasks :
        /\ task[t].pc = "done"
        /\ task[t].handler \in {"replaceBookHandler", "updateBookHandler"}
        /\ task[t].op \in {"Get", "Update"}
        /\ task[t].miss
        => task[t].status = 404

WellFormed(t) == SplitHostPort(rl[t].addr).err = Nil

\* A request that Allow refused is answered 429.
Refused429 ==
    \A t \in Tasks :
        rl[t].pc = "done" /\ WellFormed(t) /\ ~rl[t].took => rl[t].status = 429

\* The statement of C6 as it stands: of the requests of one ip that start
\* with a full bucket, the first four are admitted when they come within
\* less than a second, a fifth that comes together with the fourth is then
\* refused, and a request that comes half a second or more after a refused
\* one is admitted.
C6_BurstAsStated ==
    /\ Refused429
    /\ \A ip \in Ips :
          LET h == hist[ip]
          IN  /\ h.n \in 1 .. 4 /\ h.span < Second => h.ok
              /\ h.n = 5 /\ h.span4 < Second /\ h.span = h.span4 => ~h.ok
              /\ h.seen /\ ~h.prevOk /\ h.gap * RefillPerSecond >= OneToken
                 => h.ok

\* C6: of the requests of one ip that start with a full bucket, the first
\* four are admitted whenever they come; the fifth is refused, with 429,
\* exactly when it comes less than half a second after the first; and a
\* request that comes half a second or more after a refused one is admitted.
C6_Burst ==
    /\ Refused429
    /\ \A ip \in Ips :
          LET h == hist[ip]
          IN  /\ h.n \in 1 .. 4 => h.ok
              /\ h.n = 5 => (h.ok <=> h.span * RefillPerSecond >= OneToken)
              /\ h.seen /\ ~h.prevOk /\ h.gap * RefillPerSecond >= OneToken
                 => h.ok

\* An ip's sixth request since its bucket was full is admitted half a second
\* or more after its fifth was refused, the task having answered that with 429.
C6_Witness ==
    \E ip \in Ips :
        /\ hist[ip].n = 6 /\ hist[ip].ok /\ ~hist[ip].prevOk
        /\ hist[ip].gap * RefillPerSecond >= OneToken
        /\ rl["t1"].ip = ip /\ rl["t1"].took

\* C7: a request with a well-formed address is passed to the wrapped handler
\* only if Allow gave it a token, and once it is answered it has been passed
\* on exactly if it got a token; without a token the answer is 429.
C7_ForwardIffToken ==
    \A t \in Tasks :
        /\ rl[t].forwarded => rl[t].took /\ WellFormed(t)
        /\ rl[t].pc \in {"next", "serving"} => rl[t].took
        /\ rl[t].pc = "done" /\ WellFormed(t) =>
              /\ rl[t].forwarded <=> rl[t].took
              /\ ~rl[t].took => rl[t].status = 429

\* One task's request has been refused and answered 429 without being passed
\* on, another's has taken a token and been passed on.
C7_Witness ==
    \E t \in Tasks : \E u \in Tasks \ {t} :
        /\ rl[t].pc = "done" /\ WellFormed(t) /\ ~rl[t].took
        /\ rl[t].status = 429 /\ ~rl[t].forwarded
        /\ rl[u].pc = "done" /\ rl[u].took /\ rl[u].forwarded

\* C8: a request whose route handler runs has passed the rateLimit middleware.
C8_ThroughLimiter ==
    \A t \in Tasks :
        conn[t].handler # "" =>
            \E i \in DOMAIN conn[t].passed : conn[t].passed[i] = "rateLimit"

Locked == {"lookup", "stamp", "allow", "admit", "refuse"}

\* C10: a request task is between its Lock and its Unlock, where it reads and
\* writes the registry, exactly when it holds the mutex, and so is the
\* cleanup goroutine; no task holds the mutex when it writes the response,
\* calls the wrapped handler or waits for it; and whenever a task is inside
\* the middleware or the goroutine is awake, one of them can take a step.
C10_Mutex ==
    /\ \A t \in Tasks : rl[t].pc \in Locked <=> mu = t
    /\ cleanup.pc \in {"scan", "unlock"} <=> mu = Cleaner
    /\ \A t \in Tasks :
          rl[t].pc \in {"respond", "next", "serving", "done"} => mu # t
    /\ (\E t \in Tasks : rl[t].pc \notin {"idle", "done"}) \/ cleanup.pc # "sleep"
       => ENABLED RLStep

\* A task holds the mutex on the refusing path while the cleanup goroutine
\* waits for it, another task's request having been passed on.
C10_Witness ==
    \E t \in Tasks : \E u \in Tasks \ {t} :
        /\ rl[t].pc = "refuse" /\ mu = t
        /\ cleanup.pc = "lock"
        /\ rl[u].forwarded

\* C11: the step in which a task takes a request whose address does not
\* split into host and port ends the request with 500, without a token and
\* without a call of the wrapped handler, and leaves the registry, its
\* limiters and the mutex as they were.
C11_BadAddress ==
    [][\A t \in Tasks :
          /\ rl'[t] # rl[t]
          /\ SplitHostPort(rl'[t].addr).err # Nil
          => /\ rl'[t].pc = "done" /\ rl'[t].status = 500
             /\ ~rl'[t].took /\ ~rl'[t].forwarded
             /\ clients' = clients /\ hist' = hist /\ mu' = mu]_vars

\* A request with a bad address has been answered 500 while the registry
\* holds an entry, stamped before, for the host of that address.
C11_Witness ==
    \E t \in Tasks :
        /\ rl[t].pc = "done" /\ ~WellFormed(t) /\ rl[t].status = 500
        /\ rl[t].addr[1] \in DOMAIN clients
        /\ hist[rl[t].addr[1]].n >= 1

\* The query value s is an integer numeral.
Numeral(s) ==
    LET digits == IF s # "" /\ Head(s) \in {"+", "-"} THEN Tail(s) ELSE s
    IN  digits # "" /\ AllDigits(digits)

\* The integer that the numeral s denotes lies outside lo .. hi (a numeral
\* of more than nine digits denotes one beyond every bound used here).
Outside(s, lo, hi) ==
    LET digits == IF Head(s) \in {"+", "-"} THEN Tail(s) ELSE s
        value  == (IF Head(s) = "-" THEN -1 ELSE 1) * Decimal(TrimZeros(digits), 0)
    IN  IF Len(TrimZeros(digits)) > 9 THEN TRUE ELSE value \notin lo .. hi

\* The list request of task t asks for a sort token outside the allow-list,
\* a page outside 1 .. 10,000,000 or a page_size outside 1 .. 100.
BadQuery(t) ==
    LET qs == lreq[t].qs
    IN  \/ /\ qs.sort # ""
           /\ qs.sort \notin {"book_id", "title", "publication_year",
                              "-book_id", "-title", "-publication_year"}
        \/ Numeral(qs.page) /\ Outside(qs.page, 1, 10000000)
        \/ Numeral(qs.page_size) /\ Outside(qs.page_size, 1, 100)

\* C12: a list request with a sort token outside the allow-list, a page
\* outside 1 .. 10,000,000 or a page_size outside 1 .. 100 is answered 422
\* without a call of GetAll.
C12_RejectBadQuery ==
    \A t \in Tasks :
        lreq[t].pc = "done" /\ BadQuery(t) =>
            lreq[t].status = 422 /\ ~lreq[t].queried

\* A string without its leading "-", if it has one.
Unsigned(s) == IF s # "" /\ Head(s) = "-" THEN Tail(s) ELSE s

\* C13: for every sort string and safelist, sortColumn returns the string
\* without its leading "-" when the string is in the safelist and book_id
\* otherwise, and sortDirection returns DESC exactly when the string starts
\* with "-", else ASC; with the safelist of listBooksHandler the pair is one
\* of {book_id, title, publication_year} x {ASC, DESC}.
C13_SortResolver ==
    calc.fn = "sort" =>
        LET sort   == calc.args[1]
            safe   == calc.args[2]
            column == calc.out[1]
            dir    == calc.out[2]
        IN  /\ (\E i \in DOMAIN safe : safe[i] = sort) => column = Unsigned(sort)
            /\ (\A i \in DOMAIN safe : safe[i] # sort) => column = "book_id"
            /\ dir = (IF sort # "" /\ Head(sort) = "-" THEN "DESC" ELSE "ASC")
            /\ safe = <<"book_id", "title", "publication_year",
                        "-book_id", "-title", "-publication_year">>
               => /\ column \in {"book_id", "title", "publication_year"}
                  /\ dir \in {"ASC", "DESC"}

\* The resolver has been called with the handler's safelist and a sort
\* string that is not in it and starts with "-".
C13_Witness ==
    /\ calc.fn = "sort"
    /\ calc.args[1] = "-foo; DROP TABLE books"
    /\ calc.args[2] = SortSafeList
    /\ calc.out = <<"book_id", "DESC">>

\* C14: calculateMetadata returns the zero Metadata for 0 records whatever
\* the page, and for 1 record or more and a page size in 1 .. 100 it
\* returns the page, the page size, first page 1, the number of records and
\* as last page the least number of pages of that size that hold them all.
C14_Metadata ==
    calc.fn = "calculateMetadata" =>
        LET total == calc.args[1]
            page  == calc.args[2]
            size  == calc.args[3]
            m     == calc.out[1]
        IN  /\ total = 0 =>
                  m = [current_page |-> 0, page_size |-> 0, first_page |-> 0,
                       last_page |-> 0, total_records |-> 0]
            /\ total >= 1 =>
                  /\ m.current_page = page /\ m.page_size = size
                  /\ m.first_page = 1 /\ m.total_records = total
                  /\ m.last_page * size >= total
                  /\ (m.last_page - 1) * size < total

\* calculateMetadata has been called for 25 records and page size 10 and
\* has returned last page 3.
C14_Witness ==
    /\ calc.fn = "calculateMetadata"
    /\ calc.args[1] = 25 /\ calc.args[2] = 2 /\ calc.args[3] = 10
    /\ calc.out[1].last_page = 3

\* The Check calls on key whose condition was false, by position.
Failed(key) ==
    {i \in DOMAIN calc.args : calc.args[i].key = key /\ ~calc.args[i].ok}

\* C17: after any sequence of Check calls on a new Validator, a key has an
\* error exactly if a Check on it failed, its message is that of the first
\* such Check, and Valid() holds exactly if no Check failed.
C17_FirstFailureWins ==
    calc.fn = "Check" =>
        /\ \A key \in {"title", "isbn"} :
              IF Failed(key) = {}
              THEN key \notin DOMAIN calc.out
              ELSE /\ key \in DOMAIN calc.out
                   /\ \E i \in Failed(key) :
                         /\ \A j \in Failed(key) : i <= j
                         /\ calc.out[key] = calc.args[i].message
        /\ DOMAIN calc.out \subseteq {"title", "isbn"}
        /\ Valid(calc.out) <=> \A i \in DOMAIN calc.args : calc.args[i].ok

\* Two Checks on one key have failed with different messages, a Check that
\* held between them.
C17_Witness ==
    /\ calc.fn = "Check" /\ Len(calc.args) = 3
    /\ ~calc.args[1].ok /\ calc.args[2].ok /\ ~calc.args[3].ok
    /\ calc.args[1].key = calc.args[3].key
    /\ calc.args[1].message # calc.args[3].message
    /\ calc.out[calc.args[1].key] = calc.args[1].message

\* Row a comes before row b when the rows are sorted by the column of the
\* sort token, descending if the token starts with "-", rows with equal
\* values by book_id ascending.
ComesBefore(a, b, sort) ==
    LET ka == SortKey(a, Unsigned(sort))
        kb == SortKey(b, Unsigned(sort))
    IN  \/ ka # kb /\ (IF Head(sort) = "-" THEN ka > kb ELSE ka < kb)
        \/ ka = kb /\ a.book_id < b.book_id

\* The position of a row of the table in that order.
PositionOf(row, sort) ==
    1 + Cardinality({id \in DOMAIN books : ComesBefore(books[id], row, sort)})

\* The pages of the given size that hold n rows.
PagesFor(n, size) == 1 .. ((n + size - 1) \div size)

\* C15: a list request answered 200 returns, in order, exactly the rows at
\* positions (page-1)*page_size+1 .. page*page_size of the table sorted by
\* the resolved column and direction and then by book_id; limit is the page
\* size and offset (page-1)*page_size, not negative and within the int
\* range; the pages 1 .. last hold every row exactly once; and two requests
\* with the same query on the same table return the same rows in the same
\* order.
C15_Pagination ==
    \A t \in Tasks :
        lreq[t].pc = "done" /\ lreq[t].status = 200 =>
            LET f   == lreq[t].filters
                res == lreq[t].books
                lo  == (f.Page - 1) * f.PageSize
            IN  /\ limit(f) = f.PageSize /\ offset(f) = lo
                /\ lo >= 0 /\ lo + f.PageSize <= 1000000000
                /\ \A i \in DOMAIN res :
                      /\ res[i].book_id \in DOMAIN books
                      /\ res[i] = books[res[i].book_id]
                      /\ PositionOf(res[i], f.Sort) = lo + i
                /\ Len(res) =
                      Cardinality({id \in DOMAIN books :
                          PositionOf(books[id], f.Sort)
                              \in (lo + 1) .. (lo + f.PageSize)})
                /\ \A ord \in Orderings(sortColumn(f), sortDirection(f)) :
                      \A id \in DOMAIN books :
                         Cardinality(
                            {pg \in PagesFor(Cardinality(DOMAIN books), f.PageSize) :
                                \E i \in DOMAIN GetAll([f EXCEPT !.Page = pg], ord).books :
                                   GetAll([f EXCEPT !.Page = pg], ord).books[i].book_id = id})
                         = 1
                /\ \A u \in Tasks :
                      lreq[u].pc = "done" /\ lreq[u].qs = lreq[t].qs
                      => lreq[u].books = res /\ lreq[u].metadata = lreq[t].metadata

\* Two tasks have listed page 2 of a table of four rows by title descending,
\* two rows a page, rows with the same title among them.
C15_Witness ==
    /\ Cardinality(DOMAIN books) = 4
    /\ lreq["t1"].pc = "done" /\ lreq["t2"].pc = "done"
    /\ lreq["t1"].qs = [page |-> "2", page_size |-> "2", sort |-> "-title"]
    /\ lreq["t2"].qs = lreq["t1"].qs
    /\ lreq["t1"].status = 200
    /\ Len(lreq["t1"].books) = 2
    /\ lreq["t1"].books[1].title = lreq["t1"].books[2].title
    /\ lreq["t1"].books = lreq["t2"].books

\* The fields of a book or input that break a validation constraint.
Violations(b) ==
    {f \in InputFields :
        \/ f = "title" /\ (b.title = "" \/ Len(b.title) > 255)
        \/ f = "isbn" /\ Len(b.isbn) # 13
        \/ f = "publisher" /\ b.publisher = ""
        \/ f = "publication_year"
           /\ (b.publication_year <= 0 \/ b.publication_year > 2026)
        \/ f = "minimum_age" /\ b.minimum_age < 0}

\* What the request of a task's record r validates: the input of a POST or
\* PUT, the fetched book with the input's fields applied of a PATCH.
Validated(r) == IF r.handler = "updateBookHandler" THEN r.book ELSE r.cin

\* C16: a POST, PUT or PATCH answered 422 is one whose input breaks a
\* constraint, its error map has an entry for every field that breaks one,
\* and it has sent neither an INSERT nor an UPDATE; and one answered 200,
\* 201 or 500 after validation is one whose input breaks none.
C16_AllFailuresReported ==
    \A t \in Tasks :
        /\ task[t].pc = "done"
        /\ task[t].handler \in {"createBookHandler", "replaceBookHandler",
                                "updateBookHandler"}
        => /\ task[t].status = 422 =>
                 /\ Violations(Validated(task[t])) # {}
                 /\ Violations(Validated(task[t])) \subseteq DOMAIN task[t].errors
                 /\ task[t].op \notin {"Insert", "Update"}
                 /\ ~task[t].changed
           /\ task[t].op \in {"Insert", "Update"} =>
                 Violations(Validated(task[t])) = {}

\* A POST with four bad fields and a PATCH whose merged book has two have
\* both been answered 422.
C16_Witness ==
    \E t \in Tasks : \E u \in Tasks \ {t} :
        /\ Done(t, "createBookHandler") /\ task[t].status = 422
        /\ Cardinality(DOMAIN task[t].errors) >= 4
        /\ Done(u, "updateBookHandler") /\ task[u].status = 422
        /\ Cardinality(DOMAIN task[u].errors) >= 2
        /\ task[u].id \in DOMAIN books

\* C19: a PUT request for one book is dispatched to replaceBookHandler,
\* whose answer (200 with every field overwritten, or 422 with nothing
\* changed) is the answer of the request; the router does not answer it.
C19_PutReplaces ==
    \A t \in Tasks :
        /\ conn[t].method = "PUT"
        /\ conn[t].path = "/v1/books/:id"
        /\ conn[t].pc \in {"handler", "done"}
        => /\ conn[t].handler = "replaceBookHandler"
           /\ conn[t].status \notin {404, 405}

\* C18: a PUT or PATCH request whose body cannot be decoded is answered
\* 400, whether or not a row with its id exists, and the store is not
\* consulted for it.
C18_DecodeBeforeStore ==
    \A t \in Tasks :
        /\ task[t].handler \in {"replaceBookHandler", "updateBookHandler"}
        /\ task[t].bad
        /\ task[t].id >= 1
        => /\ task[t].op = ""
           /\ task[t].pc = "done" => task[t].status = 400

\* C20: a call of serverErrorResponse with the error of a store operation
\* sends status 500 with a message that is not the error's text, and logs
\* the error's text together with the request's method and URL.
C20_ServerError ==
    calc.fn = "serverErrorResponse" =>
        LET o == calc.out[1]
        IN  /\ o.response.status = 500
            /\ o.response.body.error # calc.args[3]
            /\ o.log.msg = calc.args[3]
            /\ {"request_method", "request_url"} \subseteq DOMAIN o.log
            /\ o.log.request_method = calc.args[1]
            /\ o.log.request_url = calc.args[2]

\* The task's POST has been answered 201.
Created(t) == Done(t, "createBookHandler") /\ task[t].status = 201

\* C21: the book of every POST answered 201 has an id that is positive, was
\* handed out by the sequence and is the id of no book of another POST
\* answered 201, and its created_at is not after its updated_at; and every
\* row of the table, whatever PUT and PATCH have written, sits under its own
\* positive id with created_at not after updated_at.
C21_IdsAndStamps ==
    /\ \A t \in Tasks :
          Created(t) =>
             /\ task[t].book.book_id >= 1
             /\ task[t].book.book_id <= seq
             /\ task[t].book.created_at <= task[t].book.updated_at
             /\ \A u \in Tasks \ {t} :
                   Created(u) => task[u].book.book_id # task[t].book.book_id
    /\ \A id \in DOMAIN books :
          /\ id >= 1
          /\ books[id].book_id = id
          /\ books[id].created_at <= books[id].updated_at

\* Two POSTs have been answered 201, and a row has been updated at a later
\* time than it was created.
C21_Witness ==
    /\ \A t \in Tasks : Created(t)
    /\ \E id \in DOMAIN books : books[id].created_at < books[id].updated_at

\* C22: no two rows of the table carry the same isbn, and a POST, PUT or
\* PATCH whose INSERT or UPDATE the UNIQUE constraint turned down has been
\* answered with an error and has changed no row.
C22_UniqueIsbn ==
    /\ \A i \in DOMAIN books : \A j \in DOMAIN books \ {i} :
          books[i].isbn # books[j].isbn
    /\ \A t \in Tasks :
          task[t].pc = "done" /\ task[t].err = ErrUnique =>
             /\ task[t].op \in {"Insert", "Update"}
             /\ task[t].status = 500
             /\ ~task[t].changed

\* A PATCH that carries the isbn of the other row has been turned down.
C22_Witness ==
    \E t \in Tasks :
        /\ Done(t, "updateBookHandler")
        /\ task[t].err = ErrUnique
        /\ task[t].uin.isbn # <<>>
        /\ \E j \in DOMAIN books \ {task[t].id} :
              books[j].isbn = task[t].uin.isbn[1]

\* C23: when SIGINT or SIGTERM has ended the process, every request that
\* was in flight when the signal came has been answered, or the process has
\* waited 20 seconds for it.
C23_GracefulShutdown ==
    proc.pc = "exited" /\ proc.signal \in Signals =>
        \/ \A t \in Tasks : conn[t].pc \in {"idle", "done"}
        \/ proc.waited = ShutdownTimeout

\* The fields that the body of a PATCH carries.
Carried(in) == {f \in InputFields : in[f] # <<>>}

\* C24: when two PATCHes of the same book with disjoint fields have both
\* been answered 200, and the UPDATE of the second ran on the row as the
\* UPDATE of the first left it, the row after the second carries the values
\* of both, and each response is the row as its UPDATE stored it.
C24_NoLostUpdate ==
    \A t \in Tasks : \A u \in Tasks \ {t} :
        /\ Done(t, "updateBookHandler") /\ task[t].status = 200
        /\ Done(u, "updateBookHandler") /\ task[u].status = 200
        /\ task[t].id = task[u].id
        /\ Carried(task[t].uin) # {} /\ Carried(task[u].uin) # {}
        /\ Carried(task[t].uin) \cap Carried(task[u].uin) = {}
        /\ task[u].pre = task[t].post
        => /\ \A f \in Carried(task[t].uin) :
                 task[u].post[f] = task[t].uin[f][1]
           /\ \A f \in Carried(task[u].uin) :
                 task[u].post[f] = task[u].uin[f][1]
           /\ task[t].book = task[t].post
           /\ task[u].book = task[u].post

\* C25: a list request answered 200 carries the zero Metadata exactly when
\* the table has no row, and carries the table's number of rows and the
\* last page computed from it whenever the table has one.
C25_MetadataOfTable ==
    \A t \in Tasks :
        lreq[t].pc = "done" /\ lreq[t].status = 200 =>
            LET n == Cardinality(DOMAIN books)
            IN  /\ lreq[t].metadata = ZeroMetadata <=> n = 0
                /\ n > 0 =>
                      /\ lreq[t].metadata.total_records = n
                      /\ lreq[t].metadata.last_page =
                            Ceil(n, lreq[t].filters.PageSize)

\* C26: the tokens of every bucket, as kept and as refilled up to now, lie
\* between 0 and 4, and no window of time holds more admissions of an ip
\* than 4 and the 2 per second that the window's length yields, whether or
\* not sweeps have evicted the ip's entry in between.
C26_WindowBound ==
    /\ \A ip \in DOMAIN clients :
          LET lim == clients[ip].limiter
          IN  /\ lim.tokens >= 0 /\ lim.tokens <= Burst * OneToken
              /\ TokensAt(lim, now) >= 0
              /\ TokensAt(lim, now) <= Burst * OneToken
    /\ \A ip \in Ips : obs[ip].debt <= Burst * OneToken

\* An ip whose entry was evicted and made again has had four requests
\* admitted at one instant and a fifth refused.
C26_Witness ==
    \E ip \in Ips :
        /\ obs[ip].made = 2
        /\ obs[ip].debt = Burst * OneToken
        /\ obs[ip].at > StaleAfter
        /\ ~hist[ip].ok /\ hist[ip].t = obs[ip].at

\* C27: every decision on a request, with the sweep running and evicting,
\* has been the decision of a limiter that is made once for the ip and
\* never evicted.
C27_EvictionUnseen == \A ip \in Ips : obs[ip].same

\* An ip's entry has been evicted and made again, and requests of the ip
\* have since been admitted and refused.
C27_Witness ==
    \E ip \in Ips :
        /\ obs[ip].made = 2
        /\ ip \in DOMAIN clients
        /\ clients[ip].limiter.last > StaleAfter
        /\ ~hist[ip].ok /\ hist[ip].prevOk
        /\ rl["t1"].pc = "done" /\ rl["t1"].status = 429

\* C28: every request stamps its ip's entry with the present time before
\* its token is tried, and nothing else changes a stamp; the token is tried
\* and taken, under the mutex, from the entry that the registry holds for
\* the request's ip; and the sweep removes an entry only if the latest
\* request of its ip, admitted or refused, was stamped more than 3 minutes
\* before, and never the entry of a request that is between its stamp and
\* its token.
C28_RecentKept ==
    [][/\ \A t \in Tasks :
             rl[t].pc = "stamp" /\ rl'[t].pc # "stamp" =>
                /\ rl'[t].pc = "allow"
                /\ clients'[rl[t].ip].lastSeen = now
       /\ \A ip \in DOMAIN clients \cap DOMAIN clients' :
             clients'[ip].lastSeen # clients[ip].lastSeen =>
                \E t \in Tasks : rl[t].pc = "stamp" /\ rl[t].ip = ip /\ rl'[t].pc = "allow"
       /\ \A t \in Tasks :
             rl[t].pc = "allow" /\ rl'[t].pc # "allow" =>
                /\ mu = t
                /\ rl[t].ip \in DOMAIN clients /\ rl[t].ip \in DOMAIN clients'
                /\ clients'[rl[t].ip].limiter = Allow(clients[rl[t].ip].limiter, now).lim
                /\ rl'[t].took = Allow(clients[rl[t].ip].limiter, now).ok
       /\ \A ip \in DOMAIN clients \ DOMAIN clients' :
             /\ now - clients[ip].lastSeen > StaleAfter
             /\ \A t \in Tasks : rl[t].ip = ip => rl[t].pc \notin {"stamp", "allow"}]_vars

\* A sweep that runs more than 3 minutes after an ip's entry was made has
\* kept the entry, the ip's latest request having been refused less than 3
\* minutes before.
C28_Witness ==
    \E ip \in Ips :
        /\ cleanup.pc = "unlock"
        /\ now > StaleAfter
        /\ ip \in DOMAIN clients
        /\ obs[ip].made = 1
        /\ ~hist[ip].ok
        /\ hist[ip].t < now /\ now - hist[ip].t <= StaleAfter

\* C29: with the tasks serving two ips concurrently, every decision for an
\* ip is the decision of a limiter that is asked by the requests of that ip
\* alone; the bucket that the registry holds for the ip is that limiter's;
\* and the stamp of the ip's entry is the time at which a request of that
\* ip stamped it last.
C29_NoInterference ==
    \A ip \in Ips :
        /\ obs[ip].same
        /\ ip \in DOMAIN clients =>
              /\ clients[ip].limiter = obs[ip].shadow
              /\ (\A t \in Tasks : ~(rl[t].pc = "stamp" /\ rl[t].ip = ip))
                    => clients[ip].lastSeen = obs[ip].seen

\* One ip has been refused its fifth request at a time when the other ip,
\* served in between and stamped at another moment, still has tokens.
C29_Witness ==
    \E a \in Ips : \E b \in Ips \ {a} :
        /\ {a, b} \subseteq DOMAIN clients
        /\ hist[a].n = Burst + 1 /\ ~hist[a].ok
        /\ hist[b].n = 1 /\ hist[b].ok
        /\ hist[b].t > 0 /\ hist[b].t < hist[a].t
        /\ clients[b].lastSeen # clients[a].lastSeen
        /\ clients[b].limiter # clients[a].limiter
        /\ \A t \in Tasks : rl[t].pc = "done"

\* C30: a step of a request that changes the books table is the last step
\* of a POST, PUT, PATCH or DELETE request and answers it with a status
\* other than 400, 404 and 422; no step of a list request changes the table.
\* Every request that is answered 400, 404 or 422 and every GET request
\* thus leaves the table as it finds it.
C30_Frame ==
    [][/\ \A t \in Tasks :
             task'[t] # task[t] /\ books' # books =>
                /\ task'[t].pc = "done"
                /\ task'[t].status \notin {400, 404, 422}
                /\ task'[t].handler \notin {"showBookHandler", "listBooksHandler"}
       /\ \A t \in Tasks : lreq'[t] # lreq[t] => books' = books]_vars

\* A PATCH of a stored book has been answered 422 and a list request has
\* been answered with a page that shows the book as it was stored.
C30_Witness ==
    \E t \in Tasks : \E u \in Tasks :
        /\ Done(t, "updateBookHandler") /\ task[t].status = 422
        /\ task[t].id \in DOMAIN books
        /\ task[t].book # books[task[t].id]
        /\ lreq[u].pc = "done" /\ lreq[u].status = 200
        /\ lreq[u].books = <<books[task[t].id]>>

\* The rows in which two tables differ.
RowsChanged(old, new) ==
    {i \in DOMAIN old \cup DOMAIN new :
        i \notin DOMAIN old \/ i \notin DOMAIN new \/ old[i] # new[i]}

Writes == {"Insert", "Update", "Delete"}

\* C31: the step of a request that calls Insert, Update or Delete is the
\* step that answers it, and no step before it has written, so a request
\* writes at most once; that step changes one row and uses one sequence
\* value at most; and when the call fails the table stays as it is and the
\* request is answered with the failure (404 for a missing record, 500
\* otherwise) in the same step; a task that has answered moves again only
\* to take a new request.
C31_OneWriteNoRetry ==
    [][/\ seq' \in {seq, seq + 1}
       /\ books' # books =>
             /\ Cardinality(RowsChanged(books, books')) = 1
             /\ \A t \in Tasks :
                   task'[t] # task[t] =>
                      /\ task'[t].pc = "done" /\ task'[t].op \in Writes
                      /\ task'[t].err = Nil
       /\ \A t \in Tasks :
             /\ task[t].pc = "fetched" =>
                   task[t].op = "Get" /\ ~task[t].changed
             /\ task'[t].op \in Writes /\ task'[t].err # Nil =>
                   /\ task'[t].pc = "done"
                   /\ task'[t].status =
                         IF task'[t].err = ErrRecordNotFound THEN 404 ELSE 500
                   /\ books' # books => task'[t] = task[t]
       /\ nreq' = nreq =>
             \A t \in Tasks : task[t].pc = "done" => task'[t] = task[t]]_vars

\* The Update of a PATCH has failed, its row having been deleted by another
\* request after the PATCH fetched it: the PATCH was answered 500 at once
\* and the table is as the DELETE left it.
C31_Witness ==
    \E t \in Tasks : \E u \in Tasks \ {t} :
        /\ Done(t, "updateBookHandler") /\ task[t].op = "Update"
        /\ task[t].err = ErrNoRows /\ task[t].status = 500
        /\ Done(u, "deleteBookHandler") /\ task[u].err = Nil
        /\ task[u].status = 200 /\ task[u].id = task[t].id
        /\ books = <<>>

====
